---- MODULE Spec2Model ----
(***************************************************************************)
(* go-wsstat: the phase-timing record of one WSStat session.               *)
(*                                                                         *)
(* State: the session's Result (phase durations and cumulative markers),   *)
(* its connection, the foreground caller's position, the background        *)
(* readers started by SendPing, and the age of the timestamp the last      *)
(* WriteMessage returned.  Time is                                         *)
(* counted in whole ticks; every measured blocking step (a lookup, a       *)
(* connect, a handshake, a read) lasts at least one tick, as the           *)
(* repository's tests require of every measured duration.                  *)
(*                                                                         *)
(* Beside the one session: the package-level settings (logger, dial        *)
(* timeout, TLS configuration), the log outputs, and the other sessions of *)
(* the process that read those settings.                                   *)
(***************************************************************************)
EXTENDS Integers, Sequences, FiniteSets, TLC

\* ---------------------------------------------------------------- bounds
MaxTick == 2      \* a slow measured step, in ticks (a quick one takes 1)
MaxAge == 2       \* oldest WriteMessage timestamp the caller still reads with
MaxPings == 2     \* SendPing calls on one WSStat (one reader each)
MaxInbox == 1     \* pong frames waiting unread on one connection
MaxWait == 4      \* ticks a pending transport connect is followed for
MaxLen == 1       \* bytes in a payload
MaxQueue == 2     \* writes the echo server has not answered yet
MaxDials == 2     \* Dial calls on one WSStat, where they are repeated
MaxLines == 2     \* messages that are followed into one log output
MaxSessions == 2  \* WSStat values alive in the process at one time
MaxAddrs == 2     \* addresses a name resolves to

\* ------------------------------------------------------- program constants
PongTimeout == 5  \* time.After(5 * time.Second) in SendPing
ReadDeadline == 5 \* SetReadDeadline(time.Now().Add(time.Second * 5))
DialTimeout == 3  \* dialTimeout = 3 * time.Second

\* What a measured blocking step can take: it is quick or it is slow.
Ticks == {1, MaxTick}

VARIABLES
    result,     \* ws.Result
    conn,       \* ws.conn and the connection behind it
    pc,         \* where the foreground caller is
    pings,      \* SendPing calls made so far; the last one's channel is pings
    readers,    \* the readLoop goroutines, one per SendPing call
    age,        \* ticks since the start the last WriteMessage returned (-1: none)
    stage,      \* how far the session has got in the canonical order
    ret,        \* what the canned flow running the session has returned
    dial,       \* where a Dial that is followed step by step has got to
    wire,       \* the messages under way to the echo server and back
    pending,    \* the payloads written and not answered yet, oldest first
    got,        \* what the last exchange with the echo server returned
    dials,      \* Dial calls that have returned, where they are counted
    held,       \* the Dial call that opened the connection in ws.conn (0: none)
    first,      \* what the first Dial call left behind
    logger,     \* the package's logger: where it writes and from what level
    dialTimeout,        \* the package's dialTimeout
    customTLSConfig,    \* the package's customTLSConfig ("nil": none)
    lines,      \* the messages that reached each log output, oldest first
    sess,       \* the WSStat values of the process, where several are followed
    hdr         \* the headers of a Dial, where they are followed

\* The variables of the canned flows and of a Dial followed step by step,
\* of the echo server's exchanges, and of repeated Dial calls.
flowVars == <<ret, dial>>
echoVars == <<wire, pending, got>>
redialVars == <<dials, held, first>>

\* The package-level variables, the log outputs and the process's sessions.
pkgVars == <<logger, dialTimeout, customTLSConfig, lines, sess>>

\* The headers of a Dial.
hdrVars == <<hdr>>

\* What each of these leaves alone of the others.
notFlow == <<echoVars, redialVars, pkgVars, hdrVars>>
notEcho == <<flowVars, redialVars, pkgVars, hdrVars>>
notRedial == <<flowVars, echoVars, pkgVars, hdrVars>>

\* What the methods of a WSStat leave alone.
otherVars == <<flowVars, echoVars, redialVars, pkgVars, hdrVars>>

\* The one session the other specifications follow.
oneSession == <<result, conn, pc, pings, readers, age, stage>>

vars == <<result, conn, pc, pings, readers, age, stage, otherVars>>

\* ------------------------------------------------------------- the record
\* type Result: the six phase durations, the six cumulative markers, TLSState.
ZeroResult ==
    [DNSLookup |-> 0, TCPConnection |-> 0, TLSHandshake |-> 0,
     WSHandshake |-> 0, MessageRoundTrip |-> 0, ConnectionClose |-> 0,
     DNSLookupDone |-> 0, TCPConnected |-> 0, TLSHandshakeDone |-> 0,
     WSHandshakeDone |-> 0, FirstMessageResponse |-> 0, TotalTime |-> 0,
     TLSState |-> FALSE]

\* A gorilla connection as this package uses it: the transport's state
\* ("nil" while ws.conn is nil), the pong handler installed on it (0:
\* gorilla's default, which does nothing; k: the handler of the k-th
\* SendPing, which sends on that call's channel) and the pong frames that
\* have arrived and were not read yet.
NoConn == [state |-> "nil", handler |-> 0, inbox |-> 0]
NewConn == [state |-> "open", handler |-> 0, inbox |-> 0]

\* A readLoop goroutine: where it is, and the channel its handler call
\* blocks on.
NoReader == [pc |-> "none", ch |-> 0]

\* No canned flow has returned.
NoReturn == [returned |-> FALSE, res |-> ZeroResult, payload |-> "nil", err |-> "nil"]

\* Nothing is under way to the echo server and nothing has come back.
NoWire == [out |-> <<>>, back |-> <<>>]
NoExchange == [op |-> "none", sent |-> <<>>, resp |-> <<>>, err |-> "nil"]

\* No Dial call has returned.
NoFirst == [result |-> ZeroResult, held |-> 0]

\* No Dial is under way.  Of a Dial that is followed step by step the
\* name resolutions and the transport connects it has begun are counted,
\* with the number of addresses the name resolved to and the index of the
\* address the last connect went to; netConn is the transport connection
\* the dial function has in hand ("none", "open" or "closed").
NoDial ==
    [step |-> "none", secure |-> FALSE, elapsed |-> 0, wait |-> 0,
     lookups |-> 0, connects |-> 0, addrs |-> 0, to |-> 0, netConn |-> "none"]

\* zerolog's levels, as far as they are followed: a logger lets a message
\* through whose level is not below its own.
TraceLevel == -1
DebugLevel == 0
InfoLevel == 1
WarnLevel == 2
Levels == {TraceLevel, DebugLevel, InfoLevel, WarnLevel}

\* Where a logger writes: the process's stderr, or a buffer of the caller.
Outputs == {"stderr", "buf"}

\* var logger: zerolog.New(os.Stderr).Level(zerolog.InfoLevel).
DefaultLogger == [out |-> "stderr", level |-> InfoLevel]

\* The slots for the process's WSStat values, and an empty one.
Sessions == 1..MaxSessions
NoSession ==
    [step |-> "none", secure |-> FALSE, result |-> ZeroResult, conn |-> NoConn,
     dialer |-> FALSE, timeout |-> 0, tls |-> "none"]

\* An http.Header with no entry; a header's values are followed as one
\* string.
EmptyHeader == [n \in {} |-> ""]

\* No Dial has been called with headers yet.  custom is what the caller
\* passed, headers the local map of Dial, resp the response dialer.Dial
\* returned.
NoHeaders ==
    [step |-> "none", custom |-> EmptyHeader, headers |-> EmptyHeader,
     resp |-> EmptyHeader, RequestHeaders |-> EmptyHeader,
     ResponseHeaders |-> EmptyHeader]

\* ---------------------------------------------------------------- dialing
\* What a dial can end in: "ok", or the first sub-step that fails.
PlainOutcomes == {"ok", "resolve", "connect", "upgrade", "iplookup"}
SecureOutcomes == PlainOutcomes \cup {"tls"}

\* A slip in NetDialContext: TCPConnected without the lookup time.
NetDialContext_NoSum(r, out, dns, tcp) ==
    IF out = "resolve" THEN r
    ELSE LET r1 == [r EXCEPT !.DNSLookup = dns] IN
         IF out = "connect" THEN r1
         ELSE [r1 EXCEPT !.TCPConnection = tcp, !.DNSLookupDone = dns,
                         !.TCPConnected = tcp]

\* newDialer.NetDialContext: the plain dial function.  out names the
\* sub-step that fails, if any of this function's sub-steps does.
NetDialContext(r, out, dns, tcp) ==
    IF out = "resolve" THEN r
    ELSE LET r1 == [r EXCEPT !.DNSLookup = dns] IN
         IF out = "connect" THEN r1
         ELSE LET r2 == [r1 EXCEPT !.TCPConnection = tcp]
                  r3 == [r2 EXCEPT !.DNSLookupDone = r2.DNSLookup]
              IN [r3 EXCEPT !.TCPConnected = r3.DNSLookupDone + r3.TCPConnection]

\* newDialer.NetDialTLSContext: the secure dial function.
NetDialTLSContext(r, out, dns, tcp, tls) ==
    IF out = "resolve" THEN r
    ELSE LET r1 == [r EXCEPT !.DNSLookup = dns] IN
         IF out = "connect" THEN r1
         ELSE LET r2 == [r1 EXCEPT !.TCPConnection = tcp] IN
              IF out = "tls" THEN r2
              ELSE LET r3 == [r2 EXCEPT !.TLSHandshake = tls, !.TLSState = TRUE]
                       r4 == [r3 EXCEPT !.DNSLookupDone = r3.DNSLookup]
                       r5 == [r4 EXCEPT !.TCPConnected = r4.DNSLookupDone + r4.TCPConnection]
                   IN [r5 EXCEPT !.TLSHandshakeDone = r5.TCPConnected + r5.TLSHandshake]

\* The wall time the dial sequence takes up to and including the sub-step
\* it ends in: each sub-step that runs, failing or not, takes its time.
DialElapsed(secure, out, dns, tcp, tls, ws) ==
    CASE out = "resolve" -> dns
      [] out = "connect" -> dns + tcp
      [] out = "tls" -> dns + tcp + tls
      [] OTHER -> dns + tcp + (IF secure THEN tls ELSE 0) + ws

\* A slip in Dial: the subtraction the other way round.
HandshakeTimes_Reversed(r, total) ==
    [r EXCEPT !.WSHandshake = r.TLSHandshakeDone - total,
              !.WSHandshakeDone = total]

\* WSStat.Dial, lines 125-128: the handshake times once dialer.Dial returned
\* without error; total is time.Since(start).
HandshakeTimes(r, total) ==
    [r EXCEPT !.WSHandshake = total - r.TLSHandshakeDone,
              !.WSHandshakeDone = total]

\* WSStat.Dial: the record the call leaves behind.
DialResult(r, secure, out, dns, tcp, tls, ws) ==
    LET d == IF secure THEN NetDialTLSContext(r, out, dns, tcp, tls)
                       ELSE NetDialContext(r, out, dns, tcp)
    IN IF out \in {"resolve", "connect", "tls", "upgrade"} THEN d
       ELSE HandshakeTimes(d, DialElapsed(secure, out, dns, tcp, tls, ws))

\* ------------------------------------------------------- message exchange
\* A slip in the exchange: FirstMessageResponse without the handshake marker.
RoundTrip_NoBase(r, mrt) ==
    [r EXCEPT !.MessageRoundTrip = mrt, !.FirstMessageResponse = mrt]

\* ReadMessage, SendMessage, SendMessageJSON: the two assignments after a
\* successful read; mrt is time.Since(start).
RoundTrip(r, mrt) ==
    LET r1 == [r EXCEPT !.MessageRoundTrip = mrt]
    IN [r1 EXCEPT !.FirstMessageResponse = r1.WSHandshakeDone + r1.MessageRoundTrip]

\* A slip after the pong case: the marker is left as it was.
PingTimes_NoMarker(r) == r

\* SendPing, line 264, after the select took the pong case.
PingTimes(r) ==
    [r EXCEPT !.FirstMessageResponse = r.WSHandshakeDone + r.MessageRoundTrip]

\* ------------------------------------------------------------------ close
\* A slip in CloseConn: TotalTime built on the handshake marker.
CloseTimes_WrongBase(r, d) ==
    [r EXCEPT !.ConnectionClose = d, !.TotalTime = r.WSHandshakeDone + d]

\* CloseConn, lines 105-106; d is time.Since(start).
CloseTimes(r, d) ==
    LET r1 == [r EXCEPT !.ConnectionClose = d]
    IN [r1 EXCEPT !.TotalTime = r1.FirstMessageResponse + r1.ConnectionClose]

\* ------------------------------------------------------- canonical order
\* The order the canned flows (MeasureLatency and its siblings) and
\* TestWriteReadClose run a session in: Dial, one exchange (or WriteMessage
\* then ReadMessage), CloseConn.  stage follows a session along that order:
\* it names the error of the first failing call right after that call
\* returned, and is "after" once any further call was made or the order
\* was left.
Exchanges == {"SendMessage", "SendMessageJSON", "SendPing"}

Errors == {"resolve", "connect", "tls", "upgrade", "iplookup", "write", "read",
           "pong response timeout", "closewrite", "close"}

CanonicalNext(s, op) ==
    CASE s = "new" /\ op = "Dial" -> "dialed"
      [] s = "dialed" /\ op \in Exchanges -> "exchanged"
      [] s = "dialed" /\ op = "WriteMessage" -> "written"
      [] s = "written" /\ op = "ReadMessage" -> "exchanged"
      [] s = "exchanged" /\ op = "CloseConn" -> "closed"
      [] OTHER -> "after"

NextStage(s, op, err) ==
    IF CanonicalNext(s, op) = "after" THEN "after"
    ELSE IF err = "nil" THEN CanonicalNext(s, op) ELSE err

\* The call op returns err ("nil": no error).
Returned(op, err) == stage' = NextStage(stage, op, err)

\* ------------------------------------------------------------- the state
Writable(c) == c.state \in {"open", "broken"}
Failing(c) == c.state \in {"broken", "closed"}
Readers == 1..MaxPings

\* d ticks pass: a timestamp the caller holds grows older, and one older
\* than MaxAge is not followed any further.
Elapse(a, d) == IF a < 0 \/ a + d > MaxAge THEN -1 ELSE a + d

\* NewWSStat: a zero Result, a dialer, no connection.
Init ==
    /\ result = ZeroResult
    /\ conn = NoConn
    /\ pc = "idle"
    /\ pings = 0
    /\ readers = [i \in Readers |-> NoReader]
    /\ age = -1
    /\ stage = "new"
    /\ ret = NoReturn
    /\ dial = NoDial
    /\ wire = NoWire
    /\ pending = <<>>
    /\ got = NoExchange
    /\ dials = 0
    /\ held = 0
    /\ first = NoFirst
    /\ logger = DefaultLogger
    /\ dialTimeout = DialTimeout
    /\ customTLSConfig = "nil"
    /\ lines = [o \in Outputs |-> <<>>]
    /\ sess = [i \in Sessions |-> NoSession]
    /\ hdr = NoHeaders

\* WSStat.Dial on the new WSStat, ending in out.  A dial that gets as far
\* as the protocol upgrade leaves its connection in ws.conn, also when the
\* IP lookup that follows fails.
DialEnds(secure, out) ==
    /\ pc = "idle" /\ stage = "new"
    /\ \E dns \in Ticks, tcp \in Ticks, ws \in Ticks :
       \E tls \in (IF secure THEN Ticks ELSE {1}) :
         result' = DialResult(result, secure, out, dns, tcp, tls, ws)
    /\ conn' = IF out \in {"ok", "iplookup"} THEN NewConn ELSE conn
    /\ Returned("Dial", IF out = "ok" THEN "nil" ELSE out)
    /\ UNCHANGED <<pc, pings, readers, age, otherVars>>

Dial ==
    \E secure \in BOOLEAN :
    \E out \in (IF secure THEN SecureOutcomes ELSE PlainOutcomes) :
      DialEnds(secure, out)

\* A slip in WriteMessage: the write is entered in the record.
WriteMessageOk_Stamps ==
    /\ pc = "idle" /\ Writable(conn)
    /\ age' = 0
    /\ result' = [result EXCEPT !.FirstMessageResponse = result.WSHandshakeDone]
    /\ Returned("WriteMessage", "nil")
    /\ UNCHANGED <<conn, pc, pings, readers, otherVars>>

\* WSStat.WriteMessage: returns the timestamp taken before the write, or
\* the zero time and the error.
WriteMessageOk ==
    /\ pc = "idle" /\ Writable(conn)
    /\ age' = 0
    /\ Returned("WriteMessage", "nil")
    /\ UNCHANGED <<result, conn, pc, pings, readers, otherVars>>

WriteMessageErr ==
    /\ pc = "idle" /\ Failing(conn)
    /\ age' = -1
    /\ Returned("WriteMessage", "write")
    /\ UNCHANGED <<result, conn, pc, pings, readers, otherVars>>

WriteMessage == WriteMessageOk \/ WriteMessageErr

\* The read half of an exchange that started before ticks ago: the message
\* arrives after d ticks.
ReceiveOk(op, before) ==
    /\ conn.state = "open"
    /\ \E d \in Ticks :
         /\ d <= ReadDeadline
         /\ age' = Elapse(age, d)
         /\ result' = RoundTrip(result, before + d)
    /\ Returned(op, "nil")
    /\ UNCHANGED <<conn, pc, pings, readers, otherVars>>

\* A slip in the failing read: the time up to the failure is recorded as
\* a round trip.
ReceiveErr_Records(op) ==
    /\ \/ /\ Failing(conn)
          /\ UNCHANGED <<conn, age>>
       \/ /\ conn.state = "open"
          /\ age' = Elapse(age, ReadDeadline)
          /\ conn' = [conn EXCEPT !.state = "broken"]
    /\ result' = RoundTrip(result, ReadDeadline)
    /\ Returned(op, "read")
    /\ UNCHANGED <<pc, pings, readers, otherVars>>

\* The read fails: at once on a connection that has failed, or when the
\* 5 s read deadline expires on a silent one, which leaves the connection
\* unreadable.
ReceiveErr(op) ==
    /\ \/ /\ Failing(conn)
          /\ UNCHANGED <<conn, age>>
       \/ /\ conn.state = "open"
          /\ age' = Elapse(age, ReadDeadline)
          /\ conn' = [conn EXCEPT !.state = "broken"]
    /\ Returned(op, "read")
    /\ UNCHANGED <<result, pc, pings, readers, otherVars>>

\* The read meets a pong frame while a SendPing handler is installed: the
\* handler sends on a channel nobody receives from any more.
ReceiveStuck ==
    /\ conn.state = "open" /\ conn.inbox > 0 /\ conn.handler # 0
    /\ pc' = "stuck"
    /\ conn' = [conn EXCEPT !.inbox = @ - 1]
    /\ UNCHANGED <<result, pings, readers, age, stage, otherVars>>

\* WSStat.ReadMessage(writeStart), with the timestamp of the last
\* WriteMessage or with one taken just now.
ReadMessageOk ==
    /\ pc = "idle"
    /\ \E before \in {a \in {age, 0} : a >= 0} : ReceiveOk("ReadMessage", before)

ReadMessageErr ==
    /\ pc = "idle"
    /\ ReceiveErr("ReadMessage") \/ ReceiveStuck

ReadMessage == ReadMessageOk \/ ReadMessageErr

\* SendMessage and SendMessageJSON: write, then read, timed from before
\* the write.
SendOk(op) ==
    /\ pc = "idle"
    /\ ReceiveOk(op, 0)

SendErr(op) ==
    /\ pc = "idle"
    /\ \/ /\ Failing(conn)
          /\ Returned(op, "write")
          /\ UNCHANGED <<result, conn, pc, pings, readers, age, otherVars>>
       \/ /\ Writable(conn)
          /\ ReceiveErr(op) \/ ReceiveStuck

SendMessage == SendOk("SendMessage") \/ SendErr("SendMessage")

SendMessageJSON == SendOk("SendMessageJSON") \/ SendErr("SendMessageJSON")

\* WSStat.SendPing, lines 242-250: the channel, the timer, the handler and
\* the background reader.
SendPingStart ==
    /\ pc = "idle" /\ conn.state # "nil"
    /\ pings < MaxPings
    /\ pings' = pings + 1
    /\ conn' = [conn EXCEPT !.handler = pings + 1]
    /\ readers' = [readers EXCEPT ![pings + 1] = [pc |-> "read", ch |-> 0]]
    /\ pc' = "ping_write"
    /\ UNCHANGED <<result, age, stage, otherVars>>

\* SendPing, lines 252-255: the ping frame is written.
SendPingWrite ==
    /\ pc = "ping_write" /\ Writable(conn)
    /\ pc' = "ping_wait"
    /\ UNCHANGED <<result, conn, pings, readers, age, stage, otherVars>>

SendPingWriteErr ==
    /\ pc = "ping_write" /\ Failing(conn)
    /\ pc' = "idle"
    /\ Returned("SendPing", "write")
    /\ UNCHANGED <<result, conn, pings, readers, age, otherVars>>

\* SendPing, lines 258-259 and 264: a reader blocked in this call's
\* handler hands over the completion signal, d ticks after the write.
SendPingPong ==
    /\ pc = "ping_wait"
    /\ \E r \in Readers, d \in Ticks :
         /\ readers[r].pc = "send" /\ readers[r].ch = pings
         /\ d <= PongTimeout
         /\ age' = Elapse(age, d)
         /\ result' = PingTimes([result EXCEPT !.MessageRoundTrip = d])
         /\ readers' = [readers EXCEPT ![r] = [pc |-> "read", ch |-> 0]]
    /\ pc' = "idle"
    /\ Returned("SendPing", "nil")
    /\ UNCHANGED <<conn, pings, otherVars>>

\* A slip in the timeout case: the wait is recorded as a round trip.
SendPingTimeout_Records ==
    /\ pc = "ping_wait"
    /\ age' = Elapse(age, PongTimeout)
    /\ result' = PingTimes([result EXCEPT !.MessageRoundTrip = PongTimeout])
    /\ pc' = "idle"
    /\ Returned("SendPing", "pong response timeout")
    /\ UNCHANGED <<conn, pings, readers, otherVars>>

\* A slip in the wait: the timer is armed again when it fires.
SendPingTimeout_Rearmed ==
    /\ pc = "ping_wait"
    /\ age' = Elapse(age, PongTimeout)
    /\ UNCHANGED <<result, conn, pc, pings, readers, stage, otherVars>>

\* SendPing, lines 260-261: the timer fires first.
SendPingTimeout ==
    /\ pc = "ping_wait"
    /\ age' = Elapse(age, PongTimeout)
    /\ pc' = "idle"
    /\ Returned("SendPing", "pong response timeout")
    /\ UNCHANGED <<result, conn, pings, readers, otherVars>>

\* WSStat.CloseConn, lines 99-103: the close frame.
CloseConnWrite ==
    /\ pc = "idle" /\ Writable(conn)
    /\ pc' = "close_conn"
    /\ UNCHANGED <<result, conn, pings, readers, age, stage, otherVars>>

\* The write fails after d ticks and CloseConn returns its error at once.
CloseConnWriteErr ==
    /\ pc = "idle" /\ Failing(conn)
    /\ \E d \in Ticks : age' = Elapse(age, d)
    /\ Returned("CloseConn", "closewrite")
    /\ UNCHANGED <<result, conn, pc, pings, readers, otherVars>>

\* WSStat.CloseConn, lines 104-107: the transport is closed, the times are
\* recorded, and Close's error is returned.  Closing a transport that is
\* closed already is an error; closing one that has failed may be.
CloseConnEnds(ok) ==
    /\ pc = "close_conn"
    /\ ok => conn.state # "closed"
    /\ ~ok => Failing(conn)
    /\ \E d \in Ticks :
         /\ age' = Elapse(age, d)
         /\ result' = CloseTimes(result, d)
    /\ Returned("CloseConn", IF ok THEN "nil" ELSE "close")
    /\ conn' = [conn EXCEPT !.state = "closed"]
    /\ pc' = "idle"
    /\ UNCHANGED <<pings, readers, otherVars>>

CloseConnClose == \E ok \in BOOLEAN : CloseConnEnds(ok)

\* Any method but Dial on a WSStat whose conn is nil dereferences nil.
NilConn ==
    /\ pc = "idle" /\ conn.state = "nil"
    /\ pc' = "panicked"
    /\ UNCHANGED <<result, conn, pings, readers, age, stage, otherVars>>

\* readLoop: NextReader meets a pong frame and runs the handler installed
\* on the connection; a SendPing handler blocks on its unbuffered channel.
ReaderPong(r) ==
    /\ readers[r].pc = "read"
    /\ Writable(conn) /\ conn.inbox > 0
    /\ conn' = [conn EXCEPT !.inbox = @ - 1]
    /\ readers' = IF conn.handler = 0 THEN readers
                  ELSE [readers EXCEPT ![r] = [pc |-> "send", ch |-> conn.handler]]
    /\ UNCHANGED <<result, pc, pings, age, stage, otherVars>>

\* readLoop: NextReader fails, the loop ends and the deferred Close runs.
ReaderErr(r) ==
    /\ readers[r].pc = "read"
    /\ Failing(conn)
    /\ readers' = [readers EXCEPT ![r].pc = "done"]
    /\ conn' = [conn EXCEPT !.state = "closed"]
    /\ UNCHANGED <<result, pc, pings, age, stage, otherVars>>

readLoop == \E r \in Readers : ReaderPong(r) \/ ReaderErr(r)

\* The peer sends a pong frame, in answer to a ping or unasked.
PeerPong ==
    /\ conn.state = "open" /\ conn.inbox < MaxInbox
    /\ conn' = [conn EXCEPT !.inbox = @ + 1]
    /\ UNCHANGED <<result, pc, pings, readers, age, stage, otherVars>>

\* The peer goes away or the network fails: reads fail from now on.
ConnFail ==
    /\ conn.state = "open"
    /\ conn' = [conn EXCEPT !.state = "broken"]
    /\ UNCHANGED <<result, pc, pings, readers, age, stage, otherVars>>

Next ==
    \/ Dial
    \/ WriteMessage
    \/ ReadMessage
    \/ SendMessage
    \/ SendMessageJSON
    \/ SendPingStart
    \/ SendPingWrite
    \/ SendPingWriteErr
    \/ SendPingPong
    \/ SendPingTimeout
    \/ CloseConnWrite
    \/ CloseConnWriteErr
    \/ CloseConnClose
    \/ NilConn
    \/ readLoop
    \/ PeerPong
    \/ ConnFail

Spec == Init /\ [][Next]_vars

\* Goroutines are scheduled fairly: a background reader that can take a
\* step eventually takes one.
FairSpec == Spec /\ \A r \in Readers : WF_vars(ReaderPong(r) \/ ReaderErr(r))

\* The runtime delivers on the channel of time.After once the 5 s are over,
\* and a select with a ready case takes one: a SendPing that waits comes to
\* its timeout case unless it has taken the other one.  The sessions are
\* those whose exchanges are pings.
PingNext ==
    \/ Dial
    \/ SendPingStart
    \/ SendPingWrite
    \/ SendPingWriteErr
    \/ SendPingPong
    \/ SendPingTimeout
    \/ CloseConnWrite
    \/ CloseConnWriteErr
    \/ CloseConnClose
    \/ NilConn
    \/ readLoop
    \/ PeerPong
    \/ ConnFail

FairPingSpec == Init /\ [][PingNext]_vars /\ WF_vars(SendPingTimeout)

\* --------------------------------------------------- pongs nobody asked for
\* A peer whose pongs answer no ping of the call they arrive in: heartbeat
\* pongs (RFC 6455, 5.5.3), or the late answer to an earlier ping.  Each
\* arrives after SendPing has installed its handler and started its reader
\* and before the ping frame is written, and the reader takes it from the
\* connection before that write.

\* The peer's pong arrives between SendPing's lines 250 and 253.
EarlyPong ==
    /\ pc = "ping_write"
    /\ PeerPong

\* SendPing, lines 252-255, once the reader has taken what had arrived.
WriteAfterReader ==
    /\ conn.inbox = 0
    /\ SendPingWrite

UnsolicitedNext ==
    \/ Dial
    \/ SendPingStart
    \/ EarlyPong
    \/ readLoop
    \/ WriteAfterReader
    \/ SendPingWriteErr
    \/ SendPingPong
    \/ SendPingTimeout
    \/ ConnFail

UnsolicitedSpec == Init /\ [][UnsolicitedNext]_vars

\* ------------------------------------------------- Dial, step by step
\* The same Dial followed through its sub-steps: dialer.Dial calls the
\* plain or the secure dial function, which resolves, connects and (secure)
\* shakes hands; gorilla then upgrades; Dial records the handshake times and
\* looks the IPs up.  dial.elapsed is the time since Dial's start and
\* dial.wait the time the pending connect has taken so far.

\* WSStat.Dial, lines 113-121, up to the call of the dial function.
DialStart(secure) ==
    /\ pc = "idle" /\ stage = "new" /\ dial.step = "none"
    /\ pc' = "dialing"
    /\ dial' = [NoDial EXCEPT !.step = "resolve", !.secure = secure]
    /\ UNCHANGED <<result, conn, pings, readers, age, stage, ret, notFlow>>

\* Dial returns err to its caller.
DialReturns(err) ==
    /\ pc' = "idle"
    /\ dial' = [dial EXCEPT !.step = "done"]
    /\ Returned("Dial", err)

\* A slip in the dial function: no connect after the lookup.
LookupHostOk_NoConnect ==
    /\ dial.step = "resolve"
    /\ \E dns \in Ticks, n \in 1..MaxAddrs :
         /\ result' = [result EXCEPT !.DNSLookup = dns]
         /\ dial' = [dial EXCEPT !.step = "upgrade", !.elapsed = @ + dns,
                                 !.lookups = @ + 1, !.addrs = n]
    /\ UNCHANGED <<conn, pc, pings, readers, age, stage, ret, notFlow>>

\* net.DefaultResolver.LookupHost returns n addresses, DNSLookup is
\* assigned and the connect to addrs[0] is begun.
LookupHostOk ==
    /\ dial.step = "resolve"
    /\ \E dns \in Ticks, n \in 1..MaxAddrs :
         /\ result' = [result EXCEPT !.DNSLookup = dns]
         /\ dial' = [dial EXCEPT !.step = "connect", !.elapsed = @ + dns,
                                 !.lookups = @ + 1, !.addrs = n,
                                 !.connects = @ + 1, !.to = 1]
    /\ UNCHANGED <<conn, pc, pings, readers, age, stage, ret, notFlow>>

LookupHostErr ==
    /\ dial.step = "resolve"
    /\ pc' = "idle"
    /\ dial' = [dial EXCEPT !.step = "done", !.lookups = @ + 1]
    /\ Returned("Dial", "resolve")
    /\ UNCHANGED <<result, conn, pings, readers, age, ret, notFlow>>

\* The transport connect is pending for another tick.  net.DialTimeout
\* gives up after dialTimeout; the secure path's net.Dialer{} has no
\* Timeout and its context no deadline.
ConnectWait ==
    /\ dial.step = "connect"
    /\ dial.wait < (IF dial.secure THEN MaxWait ELSE DialTimeout)
    /\ dial' = [dial EXCEPT !.wait = @ + 1]
    /\ UNCHANGED <<result, conn, pc, pings, readers, age, stage, ret, notFlow>>

\* The markers a dial function records before it returns without error.
PlainMarkers(r) ==
    LET r1 == [r EXCEPT !.DNSLookupDone = r.DNSLookup]
    IN [r1 EXCEPT !.TCPConnected = r1.DNSLookupDone + r1.TCPConnection]

SecureMarkers(r) ==
    LET r1 == PlainMarkers(r)
    IN [r1 EXCEPT !.TLSHandshakeDone = r1.TCPConnected + r1.TLSHandshake]

\* The connect completes after dial.wait ticks.  The plain dial function
\* records its markers and returns the connection; the secure one goes on
\* to the handshake.
ConnectOk ==
    /\ dial.step = "connect" /\ dial.wait \in Ticks
    /\ LET r1 == [result EXCEPT !.TCPConnection = dial.wait]
       IN result' = IF dial.secure THEN r1 ELSE PlainMarkers(r1)
    /\ dial' = [dial EXCEPT !.step = IF dial.secure THEN "tls" ELSE "upgrade",
                            !.elapsed = @ + dial.wait, !.netConn = "open"]
    /\ UNCHANGED <<conn, pc, pings, readers, age, stage, ret, notFlow>>

\* A slip on a refused connect: the next resolved address is tried.
ConnectErr_NextAddr ==
    /\ dial.step = "connect"
    /\ dial.secure \/ dial.wait < DialTimeout
    /\ IF dial.to < dial.addrs
       THEN /\ dial' = [dial EXCEPT !.wait = 0, !.connects = @ + 1, !.to = @ + 1]
            /\ UNCHANGED <<pc, stage>>
       ELSE DialReturns("connect")
    /\ UNCHANGED <<result, conn, pings, readers, age, ret, notFlow>>

\* The connect is refused, before any timeout has expired: the dial
\* function returns the error, and so does Dial.
ConnectErr ==
    /\ dial.step = "connect"
    /\ dial.secure \/ dial.wait < DialTimeout
    /\ DialReturns("connect")
    /\ UNCHANGED <<result, conn, pings, readers, age, ret, notFlow>>

\* net.DialTimeout(network, address, dialTimeout): the timeout expires.
ConnectTimeout ==
    /\ dial.step = "connect" /\ ~dial.secure
    /\ dial.wait >= DialTimeout
    /\ DialReturns("connect")
    /\ UNCHANGED <<result, conn, pings, readers, age, ret, notFlow>>

\* tlsConn.Handshake() and what follows it in the secure dial function.
HandshakeOk ==
    /\ dial.step = "tls"
    /\ \E tls \in Ticks :
         /\ result' = SecureMarkers([result EXCEPT !.TLSHandshake = tls,
                                                   !.TLSState = TRUE])
         /\ dial' = [dial EXCEPT !.step = "upgrade", !.elapsed = @ + tls]
    /\ UNCHANGED <<conn, pc, pings, readers, age, stage, ret, notFlow>>

\* A slip on a failed handshake: the error is returned and the transport
\* connection left as it is.
HandshakeErr_Leaks ==
    /\ dial.step = "tls"
    /\ DialReturns("tls")
    /\ UNCHANGED <<result, conn, pings, readers, age, ret, notFlow>>

\* tlsConn.Handshake() fails, lines 559-562: netConn.Close(), and the
\* error goes back through dialer.Dial to the caller of Dial.
HandshakeErr ==
    /\ dial.step = "tls"
    /\ pc' = "idle"
    /\ dial' = [dial EXCEPT !.step = "done", !.netConn = "closed"]
    /\ Returned("Dial", "tls")
    /\ UNCHANGED <<result, conn, pings, readers, age, ret, notFlow>>

\* dialer.Dial returns the upgraded connection; Dial, lines 125-128.
UpgradeOk ==
    /\ dial.step = "upgrade"
    /\ \E ws \in Ticks :
         /\ result' = HandshakeTimes(result, dial.elapsed + ws)
         /\ dial' = [dial EXCEPT !.step = "iplookup", !.elapsed = @ + ws]
    /\ conn' = NewConn
    /\ UNCHANGED <<pc, pings, readers, age, stage, ret, notFlow>>

\* The upgrade fails: dialer.Dial closes the transport connection it got
\* from the dial function and returns the error.
UpgradeErr ==
    /\ dial.step = "upgrade"
    /\ pc' = "idle"
    /\ dial' = [dial EXCEPT !.step = "done", !.netConn = "closed"]
    /\ Returned("Dial", "upgrade")
    /\ UNCHANGED <<result, conn, pings, readers, age, ret, notFlow>>

\* Dial, lines 131-156: net.LookupIP, which resolves the host once more,
\* and the headers.
LookupIP(ok) ==
    /\ dial.step = "iplookup"
    /\ pc' = "idle"
    /\ dial' = [dial EXCEPT !.step = "done", !.lookups = @ + 1]
    /\ Returned("Dial", IF ok THEN "nil" ELSE "iplookup")
    /\ UNCHANGED <<result, conn, pings, readers, age, ret, notFlow>>

DialSteps ==
    \/ \E secure \in BOOLEAN : DialStart(secure)
    \/ LookupHostOk
    \/ LookupHostErr
    \/ ConnectWait
    \/ ConnectOk
    \/ ConnectErr
    \/ ConnectTimeout
    \/ HandshakeOk
    \/ HandshakeErr
    \/ UpgradeOk
    \/ UpgradeErr
    \/ \E ok \in BOOLEAN : LookupIP(ok)

\* ------------------------------------------------------------ canned flows
\* MeasureLatency, MeasureLatencyJSON and MeasureLatencyPing: NewWSStat,
\* Dial, one exchange, CloseConn, return.  The flow is where stage says;
\* which of the three it is shows in the exchange it makes.

\* The errors after which a flow returns Result{} and its error.
StepErrors ==
    {"resolve", "connect", "tls", "upgrade", "iplookup", "write", "read",
     "pong response timeout"}

\* MeasureLatency: ws.WriteMessage, then ws.ReadMessage(start).
FlowWrite ==
    /\ stage = "dialed" /\ pings = 0
    /\ WriteMessage

FlowRead ==
    /\ stage = "written"
    /\ \/ /\ pc = "idle"
          /\ ReceiveOk("ReadMessage", age)
       \/ ReadMessageErr

\* MeasureLatencyJSON: ws.SendMessageJSON(v).
FlowSendJSON ==
    /\ stage = "dialed" /\ pings = 0
    /\ SendMessageJSON

\* MeasureLatencyPing: ws.SendPing().
FlowPing ==
    /\ stage = "dialed"
    /\ \/ pings = 0 /\ SendPingStart
       \/ SendPingWrite
       \/ SendPingWriteErr
       \/ SendPingPong
       \/ SendPingTimeout

\* ws.CloseConn(), whose error the flows drop.
FlowClose ==
    /\ stage = "exchanged"
    /\ \/ CloseConnWrite
       \/ CloseConnWriteErr
       \/ CloseConnClose

\* A slip in the flows: the record is returned whatever happened.
FlowValue_Partial(s, r, n) ==
    [returned |-> TRUE, res |-> r,
     payload |-> IF n = 0 /\ s \notin StepErrors THEN "response" ELSE "nil",
     err |-> IF s \in StepErrors THEN s ELSE "nil"]

\* What a flow returns when the session is at s with record r after n
\* pings: Result{}, nil and the error after a failed Dial or exchange,
\* *ws.Result, the response (no payload in the ping flow) and nil otherwise.
FlowValue(s, r, n) ==
    IF s \in StepErrors
    THEN [returned |-> TRUE, res |-> ZeroResult, payload |-> "nil", err |-> s]
    ELSE [returned |-> TRUE, res |-> r,
          payload |-> IF n = 0 THEN "response" ELSE "nil", err |-> "nil"]

FlowReturn ==
    /\ pc = "idle" /\ ~ret.returned
    /\ stage \in StepErrors \cup {"closed", "closewrite", "close"}
    /\ ret' = FlowValue(stage, result, pings)
    /\ UNCHANGED <<result, conn, pc, pings, readers, age, stage, dial, notFlow>>

FlowNext ==
    \/ DialSteps
    \/ FlowWrite
    \/ FlowRead
    \/ FlowSendJSON
    \/ FlowPing
    \/ FlowClose
    \/ FlowReturn
    \/ readLoop
    \/ PeerPong
    \/ ConnFail

FlowSpec == Init /\ [][FlowNext]_vars

\* Time passes while a connect is pending, and a timer that has expired
\* fires.
FairFlowSpec ==
    FlowSpec /\ WF_vars(ConnectWait) /\ WF_vars(ConnectTimeout)

\* ------------------------------------------------------------ echo server
\* The payloads of the exchanges, against the server of the tests, which
\* writes every message it reads back as it is.  The caller keeps its
\* calls paired: it may write several messages with WriteMessage before it
\* reads the answers, and it calls SendMessage and SendMessageJSON when no
\* write is unanswered.
Bytes == {65, 255}

Payloads == UNION {[1..n -> Bytes] : n \in 0..MaxLen}

\* encoding/json on a string: what is not valid UTF-8 becomes U+FFFD.
\* (One-, two- and three-byte forms; every other byte is invalid.)
RECURSIVE ToValidUTF8(_)
ToValidUTF8(s) ==
    IF s = <<>> THEN <<>>
    ELSE IF s[1] < 128 THEN <<s[1]>> \o ToValidUTF8(Tail(s))
    ELSE IF /\ s[1] \in 194..223 /\ Len(s) >= 2
            /\ s[2] \in 128..191
         THEN <<s[1], s[2]>> \o ToValidUTF8(Tail(Tail(s)))
    ELSE IF /\ s[1] \in 224..239 /\ Len(s) >= 3
            /\ s[2] \in 128..191 /\ s[3] \in 128..191
         THEN <<s[1], s[2], s[3]>> \o ToValidUTF8(Tail(Tail(Tail(s))))
    ELSE <<239, 191, 189>> \o ToValidUTF8(Tail(s))

\* conn.WriteJSON(&v) for a struct with one string field tagged "text":
\* the document, its braces standing for all that surrounds the string.
WriteJSON(text) == <<123>> \o ToValidUTF8(text) \o <<125>>

\* conn.ReadJSON(&resp), resp an interface{}: the map's "text" entry, or
\* a decoding error for what is no document.
IsDocument(data) == Len(data) >= 2 /\ data[1] = 123 /\ data[Len(data)] = 125

ReadJSON(data) == SubSeq(data, 2, Len(data) - 1)

\* A slip in the server: it answers with what it read, less the last byte.
Echo_Cut(data) == IF data = <<>> THEN data ELSE SubSeq(data, 1, Len(data) - 1)

\* startEchoServer: conn.WriteMessage(mt, message) of what ReadMessage gave.
Echo(data) == data

EchoServer ==
    /\ wire.out # <<>>
    /\ wire' = [out |-> Tail(wire.out), back |-> Append(wire.back, Echo(Head(wire.out)))]
    /\ UNCHANGED <<result, conn, pc, pings, readers, age, stage, pending, got,
                   notEcho>>

\* The write half of an exchange: the message goes out.
Written(sent, data) ==
    /\ Len(pending) < MaxQueue
    /\ wire' = [wire EXCEPT !.out = Append(@, data)]
    /\ pending' = Append(pending, sent)

\* The read half: the next message that came back, d ticks later, in an
\* exchange that began before ticks ago.
Received(before, d) ==
    /\ wire.back # <<>>
    /\ wire' = [wire EXCEPT !.back = Tail(@)]
    /\ pending' = Tail(pending)
    /\ age' = Elapse(age, d)
    /\ result' = RoundTrip(result, before + d)

\* WSStat.WriteMessage(websocket.TextMessage, data): the timestamp taken
\* before the write is returned.
WriteText(data) ==
    /\ pc = "idle"
    /\ Written(data, data)
    /\ age' = 0
    /\ UNCHANGED <<result, conn, pc, pings, readers, stage, got, notEcho>>

\* The caller does something else for a tick before it reads.
Wait ==
    /\ pc = "idle" /\ age >= 0 /\ age < MaxAge
    /\ age' = age + 1
    /\ UNCHANGED <<result, conn, pc, pings, readers, stage, echoVars, notEcho>>

\* A slip in ReadMessage: the round trip is timed from the read's start.
ReadTextWith_ReadOnly(before, d) ==
    /\ pc = "idle"
    /\ Received(0, d)
    /\ got' = [op |-> "ReadMessage", sent |-> Head(pending),
               resp |-> Head(wire.back), err |-> "nil"]
    /\ UNCHANGED <<conn, pc, pings, readers, stage, notEcho>>

\* WSStat.ReadMessage(writeStart), writeStart taken before ticks ago, the
\* read taking d ticks: msgType, p, nil.
ReadTextWith(before, d) ==
    /\ pc = "idle"
    /\ Received(before, d)
    /\ got' = [op |-> "ReadMessage", sent |-> Head(pending),
               resp |-> Head(wire.back), err |-> "nil"]
    /\ UNCHANGED <<conn, pc, pings, readers, stage, notEcho>>

\* The caller reads with the timestamp of its last WriteMessage or with
\* one taken just now.
ReadText ==
    \E before \in {a \in {age, 0} : a >= 0}, d \in Ticks : ReadTextWith(before, d)

\* WSStat.SendMessage(websocket.TextMessage, data): the write.
SendText(data) ==
    /\ pc = "idle" /\ pending = <<>>
    /\ Written(data, data)
    /\ pc' = "send_read"
    /\ UNCHANGED <<result, conn, pings, readers, age, stage, got, notEcho>>

\* SendMessage: the read, and p is returned.
SendTextRead ==
    /\ pc = "send_read"
    /\ \E d \in Ticks : Received(0, d)
    /\ got' = [op |-> "SendMessage", sent |-> Head(pending),
               resp |-> Head(wire.back), err |-> "nil"]
    /\ pc' = "idle"
    /\ UNCHANGED <<conn, pings, readers, stage, notEcho>>

\* WSStat.SendMessageJSON(v), v a struct whose text field is text: the
\* write.
SendJSON(text) ==
    /\ pc = "idle" /\ pending = <<>>
    /\ Written(text, WriteJSON(text))
    /\ pc' = "json_read"
    /\ UNCHANGED <<result, conn, pings, readers, age, stage, got, notEcho>>

\* SendMessageJSON: the read; got.resp is the text entry of the map that
\* is returned.
SendJSONRead ==
    /\ pc = "json_read" /\ wire.back # <<>>
    /\ IF IsDocument(Head(wire.back))
       THEN /\ \E d \in Ticks : Received(0, d)
            /\ got' = [op |-> "SendMessageJSON", sent |-> Head(pending),
                       resp |-> ReadJSON(Head(wire.back)), err |-> "nil"]
       ELSE /\ wire' = [wire EXCEPT !.back = Tail(@)]
            /\ pending' = Tail(pending)
            /\ got' = [op |-> "SendMessageJSON", sent |-> Head(pending),
                       resp |-> <<>>, err |-> "read"]
            /\ UNCHANGED <<result, age>>
    /\ pc' = "idle"
    /\ UNCHANGED <<conn, pings, readers, stage, notEcho>>

\* A session that Dial has just opened to the echo server.
EchoInit ==
    /\ result = DialResult(ZeroResult, FALSE, "ok", 1, 1, 1, 1)
    /\ conn = NewConn
    /\ pc = "idle"
    /\ pings = 0
    /\ readers = [i \in Readers |-> NoReader]
    /\ age = -1
    /\ stage = "dialed"
    /\ ret = NoReturn
    /\ dial = NoDial
    /\ wire = NoWire
    /\ pending = <<>>
    /\ got = NoExchange
    /\ dials = 0
    /\ held = 0
    /\ first = NoFirst
    /\ logger = DefaultLogger
    /\ dialTimeout = DialTimeout
    /\ customTLSConfig = "nil"
    /\ lines = [o \in Outputs |-> <<>>]
    /\ sess = [i \in Sessions |-> NoSession]
    /\ hdr = NoHeaders

EchoNext ==
    \/ \E data \in Payloads : WriteText(data)
    \/ Wait
    \/ ReadText
    \/ \E data \in Payloads : SendText(data)
    \/ SendTextRead
    \/ \E text \in Payloads : SendJSON(text)
    \/ SendJSONRead
    \/ EchoServer

EchoSpec == EchoInit /\ [][EchoNext]_vars

\* ----------------------------------------------------------- Dial, again
\* Dial on a WSStat that may have been dialed before: the same code runs on
\* the record and the connection field as they are.
DialCall(secure, out) ==
    /\ pc = "idle" /\ dials < MaxDials
    /\ \E dns \in Ticks, tcp \in Ticks, ws \in Ticks :
       \E tls \in (IF secure THEN Ticks ELSE {1}) :
         result' = DialResult(result, secure, out, dns, tcp, tls, ws)
    /\ conn' = IF out \in {"ok", "iplookup"} THEN NewConn ELSE conn
    /\ held' = IF out \in {"ok", "iplookup"} THEN dials + 1 ELSE held
    /\ dials' = dials + 1
    /\ first' = IF dials = 0 THEN [result |-> result', held |-> held'] ELSE first
    /\ Returned("Dial", IF out = "ok" THEN "nil" ELSE out)
    /\ UNCHANGED <<pc, pings, readers, age, notRedial>>

RedialNext ==
    \E secure \in BOOLEAN :
    \E out \in (IF secure THEN SecureOutcomes ELSE PlainOutcomes) :
      DialCall(secure, out)

RedialSpec == Init /\ [][RedialNext]_vars

\* ----------------------------------------------------------------- logger
\* What the logger's functions leave alone.
notLog == <<oneSession, flowVars, echoVars, redialVars, hdrVars, dialTimeout,
            customTLSConfig, sess>>

\* The loggers a caller hands to SetLogger: they write to its buffer.
Loggers == [out : {"buf"}, level : Levels]

\* zerolog decides by the logger's level whether a message of level lvl is
\* written (the process-wide level is left at its default, which lets
\* everything through).
Should(l, lvl) == lvl >= l.level

\* SetLogger(l): logger = l.
SetLogger(l) ==
    /\ logger' = l
    /\ UNCHANGED <<lines, notLog>>

\* A slip in SetLogLevel: a level once set is never lowered again.
SetLogLevel_Raise(level) ==
    /\ logger' = [logger EXCEPT !.level = IF level > @ THEN level ELSE @]
    /\ UNCHANGED <<lines, notLog>>

\* SetLogLevel(level): logger = logger.Level(level), a copy of the logger
\* with the level replaced.
SetLogLevel(level) ==
    /\ logger' = [logger EXCEPT !.level = level]
    /\ UNCHANGED <<lines, notLog>>

\* logger.Debug()...Msg(...) and logger.Info().Msg(...): a message of level
\* lvl is handed to the logger.
Msg(lvl) ==
    /\ Len(lines[logger.out]) < MaxLines
    /\ lines' = IF Should(logger, lvl)
                THEN [lines EXCEPT ![logger.out] = Append(@, lvl)]
                ELSE lines
    /\ UNCHANGED <<logger, notLog>>

LogDebug == Msg(DebugLevel)

LogInfo == Msg(InfoLevel)

LogNext ==
    \/ \E l \in Loggers : SetLogger(l)
    \/ \E level \in Levels : SetLogLevel(level)
    \/ LogDebug
    \/ LogInfo

LogSpec == Init /\ [][LogNext]_vars

\* --------------------------------------------------------------- sessions
\* Several WSStat values in one process, and the package-level variables
\* their dial functions read.  A session's timeout is the one its connect
\* was started with (0: none) and its tls the configuration its handshake
\* was started with ("none": no handshake yet).
notPkg == <<oneSession, flowVars, echoVars, redialVars, hdrVars, lines>>

\* The timeouts and the TLS configurations a caller sets.
Timeouts == {1, DialTimeout}
TLSConfigs == {"nil", "custom"}

\* A slip in NewWSStat: the dialer is left out of the struct.
NewWSStat_NoDialer ==
    [step |-> "new", secure |-> FALSE, result |-> ZeroResult, conn |-> NoConn,
     dialer |-> FALSE, timeout |-> 0, tls |-> "none"]

\* NewWSStat: result := &Result{}, the dialer made for it, and no conn.
NewWSStat ==
    [step |-> "new", secure |-> FALSE, result |-> ZeroResult, conn |-> NoConn,
     dialer |-> TRUE, timeout |-> 0, tls |-> "none"]

\* ws := NewWSStat(), into a slot that is empty or whose session is done.
NewSession(s) ==
    /\ sess[s].step \in {"none", "dialed"}
    /\ sess' = [sess EXCEPT ![s] = NewWSStat]
    /\ UNCHANGED <<logger, dialTimeout, customTLSConfig, notPkg>>

\* ws.Dial up to the connect: the plain dial function hands dialTimeout to
\* net.DialTimeout, the secure one connects without a timeout.
SessionConnect(s, secure) ==
    /\ sess[s].step = "new"
    /\ sess' = [sess EXCEPT ![s].step = "connect", ![s].secure = secure,
                            ![s].timeout = IF secure THEN 0 ELSE dialTimeout]
    /\ UNCHANGED <<logger, dialTimeout, customTLSConfig, notPkg>>

\* The configuration the secure dial function shakes hands with:
\* customTLSConfig, or its own default when that is nil.
TLSConfigUsed == IF customTLSConfig = "nil" THEN "default" ELSE customTLSConfig

\* The connect completes.  The plain path goes on to the upgrade and Dial
\* returns; the secure dial function reads customTLSConfig now.
SessionConnected(s) ==
    /\ sess[s].step = "connect"
    /\ sess' = IF sess[s].secure
               THEN [sess EXCEPT ![s].step = "tls", ![s].tls = TLSConfigUsed]
               ELSE [sess EXCEPT ![s].step = "dialed", ![s].conn = NewConn,
                                 ![s].result = DialResult(@, FALSE, "ok", 1, 1, 1, 1)]
    /\ UNCHANGED <<logger, dialTimeout, customTLSConfig, notPkg>>

\* The secure handshake and the upgrade complete and Dial returns.
SessionHandshake(s) ==
    /\ sess[s].step = "tls"
    /\ sess' = [sess EXCEPT ![s].step = "dialed", ![s].conn = NewConn,
                            ![s].result = DialResult(@, TRUE, "ok", 1, 1, 1, 1)]
    /\ UNCHANGED <<logger, dialTimeout, customTLSConfig, notPkg>>

\* SetDialTimeout(timeout): dialTimeout = timeout.
SetDialTimeout(timeout) ==
    /\ dialTimeout' = timeout
    /\ UNCHANGED <<logger, customTLSConfig, sess, notPkg>>

\* SetCustomTLSConfig(config): customTLSConfig = config.
SetCustomTLSConfig(config) ==
    /\ customTLSConfig' = config
    /\ UNCHANGED <<logger, dialTimeout, sess, notPkg>>

SessionNext ==
    \/ \E s \in Sessions : NewSession(s)
    \/ \E s \in Sessions, secure \in BOOLEAN : SessionConnect(s, secure)
    \/ \E s \in Sessions : SessionConnected(s)
    \/ \E s \in Sessions : SessionHandshake(s)
    \/ \E timeout \in Timeouts : SetDialTimeout(timeout)
    \/ \E config \in TLSConfigs : SetCustomTLSConfig(config)
    \/ \E l \in Loggers : SetLogger(l)
    \/ \E level \in Levels : SetLogLevel(level)

SessionSpec == Init /\ [][SessionNext]_vars

\* ------------------------------------------------------------ the headers
\* Dial's handling of the request and response headers.  The header names
\* are the map keys as written: neither Dial nor the dialer brings a key
\* into canonical form.
notHdr == <<oneSession, flowVars, echoVars, redialVars, pkgVars>>

\* Dial, lines 142-147.
documentedDefaultHeaders ==
    [n \in {"Upgrade", "Connection", "Sec-WebSocket-Key", "Sec-WebSocket-Version"} |->
       CASE n = "Upgrade" -> "websocket"
         [] n = "Connection" -> "Upgrade"
         [] n = "Sec-WebSocket-Key" -> "<hidden>"
         [] OTHER -> "13"]

\* The headers a caller passes: any of these names, each with a value that
\* is not the default one.
CallerHeader ==
    [n \in {"Origin", "X-Test", "Upgrade", "Connection", "Sec-WebSocket-Key",
            "Sec-WebSocket-Version"} |->
       CASE n = "Origin" -> "http://caller.test"
         [] n = "X-Test" -> "1"
         [] n = "Upgrade" -> "h2c"
         [] n = "Connection" -> "close"
         [] n = "Sec-WebSocket-Key" -> "Y2FsbGVyJ3Mgbm9uY2UgMTIzNA=="
         [] OTHER -> "13, 8"]

CustomHeaders ==
    {[n \in S |-> CallerHeader[n]] : S \in SUBSET DOMAIN CallerHeader}

\* The upgrade response of the server.
UpgradeResponse ==
    [n \in {"Upgrade", "Connection", "Sec-Websocket-Accept"} |->
       CASE n = "Upgrade" -> "websocket"
         [] n = "Connection" -> "Upgrade"
         [] OTHER -> "accept"]

\* for name, values := range g { h[name] = values }
Assign(h, g) ==
    [n \in DOMAIN h \cup DOMAIN g |-> IF n \in DOMAIN g THEN g[n] ELSE h[n]]

\* Dial, lines 116-120: the default Origin, then the caller's headers.
HeaderDial(custom) ==
    /\ hdr.step = "none"
    /\ hdr' = [hdr EXCEPT !.step = "built", !.custom = custom,
                          !.headers = Assign([n \in {"Origin"} |-> "http://example.com"],
                                             custom)]
    /\ UNCHANGED notHdr

\* What dialer.Dial can succeed with.  gorilla refuses a request header
\* named Upgrade or Connection ("duplicate header not allowed"); a
\* Sec-WebSocket-Key of the caller's goes out in place of the dialer's own
\* and the answer to it fails the dialer's check of the accept value.
Dialable(h) ==
    DOMAIN h \cap {"Upgrade", "Connection", "Sec-WebSocket-Key"} = {}

\* Dial, line 121: the dialer returns the connection and the response.
HeaderDialOk ==
    /\ hdr.step = "built" /\ Dialable(hdr.headers)
    /\ hdr' = [hdr EXCEPT !.step = "upgraded", !.resp = UpgradeResponse]
    /\ UNCHANGED notHdr

\* Dial, lines 122-124 and 132-134: the dialer or the IP lookup fails and
\* Dial returns before it gets to the headers.
HeaderDialErr ==
    /\ hdr.step \in {"built", "upgraded"}
    /\ hdr' = [hdr EXCEPT !.step = "failed"]
    /\ UNCHANGED notHdr

\* Dial, lines 149-154: the documented defaults go into the map and the
\* map and the response's headers into the record.
HeaderCapture ==
    /\ hdr.step = "upgraded"
    /\ LET h == Assign(hdr.headers, documentedDefaultHeaders)
       IN hdr' = [hdr EXCEPT !.step = "captured", !.headers = h,
                             !.RequestHeaders = h,
                             !.ResponseHeaders = hdr.resp]
    /\ UNCHANGED notHdr

HeaderNext ==
    \/ \E custom \in CustomHeaders : HeaderDial(custom)
    \/ HeaderDialOk
    \/ HeaderDialErr
    \/ HeaderCapture

HeaderSpec == Init /\ [][HeaderNext]_vars

\* ----------------------------------------------------------------- claims
Dialed == stage = "dialed"
SecurePath == result.TLSState

\* C1: after any Dial that returns nil, on the plain and on the secure
\* path, DNSLookupDone = DNSLookup and TCPConnected = DNSLookupDone +
\* TCPConnection, and on the secure path TLSHandshakeDone = TCPConnected +
\* TLSHandshake.
C1_DialMarkers ==
    [][\A secure \in BOOLEAN :
         DialEnds(secure, "ok") =>
           /\ result'.DNSLookupDone = result'.DNSLookup
           /\ result'.TCPConnected = result'.DNSLookupDone + result'.TCPConnection
           /\ secure => result'.TLSHandshakeDone =
                          result'.TCPConnected + result'.TLSHandshake]_vars

\* A secure dial has returned nil with a slow lookup and a quick connect.
C1_Witness ==
    /\ Dialed /\ SecurePath
    /\ result.DNSLookup = MaxTick /\ result.TCPConnection = 1
    /\ result.TCPConnected = MaxTick + 1
    /\ result.TLSHandshakeDone > result.TCPConnected

\* C2: after a Dial that returns nil, WSHandshake is the total dial time
\* less TLSHandshakeDone when a secure handshake occurred and less
\* TCPConnected when none did, so that WSHandshakeDone is the preceding set
\* marker plus WSHandshake on both paths.
C2_HandshakeBySubtraction ==
    Dialed =>
      result.WSHandshakeDone =
        (IF SecurePath THEN result.TLSHandshakeDone ELSE result.TCPConnected)
          + result.WSHandshake

\* C3: after every successful message exchange (ReadMessage, SendMessage,
\* SendMessageJSON or SendPing returning nil), FirstMessageResponse =
\* WSHandshakeDone + MessageRoundTrip.
ExchangeOk ==
    \/ ReadMessageOk
    \/ SendOk("SendMessage")
    \/ SendOk("SendMessageJSON")
    \/ SendPingPong

C3_FirstMessageResponse ==
    [][ExchangeOk =>
         result'.FirstMessageResponse =
           result'.WSHandshakeDone + result'.MessageRoundTrip]_vars

\* A ping was the session's exchange and it returned nil.
C3_Witness ==
    /\ stage = "exchanged" /\ pings = 1
    /\ result.MessageRoundTrip > 0
    /\ result.FirstMessageResponse > result.MessageRoundTrip

\* C4: whenever CloseConn returns nil after a successful exchange,
\* TotalTime = FirstMessageResponse + ConnectionClose, and ConnectionClose
\* and TotalTime are both set.
C4_TotalTime ==
    [][(CloseConnEnds(TRUE) /\ result.FirstMessageResponse > 0) =>
         /\ result'.ConnectionClose > 0
         /\ result'.TotalTime > 0
         /\ result'.TotalTime =
              result'.FirstMessageResponse + result'.ConnectionClose]_vars

\* The canonical session is closed, and its exchange was slower than its
\* handshake marker alone.
C4_Witness ==
    /\ stage = "closed"
    /\ result.FirstMessageResponse > result.WSHandshakeDone
    /\ result.TotalTime > result.FirstMessageResponse

\* C5: a session that is dialed and closed without any successful exchange
\* (FirstMessageResponse never set) keeps TotalTime zero, also when
\* ConnectionClose is not zero.
C5_TotalStaysZero ==
    result.FirstMessageResponse = 0 => result.TotalTime = 0

\* C6: in a session run in the canonical order, once the first failure
\* occurred in phase P, every cumulative marker from P onward is zero
\* when the failing call has returned.  (A failing IP lookup in Dial comes
\* after the protocol handshake and before the message exchange.)
MarkersFrom(err) ==
    CASE err = "resolve" ->
           {"DNSLookupDone", "TCPConnected", "TLSHandshakeDone",
            "WSHandshakeDone", "FirstMessageResponse", "TotalTime"}
      [] err = "connect" ->
           {"TCPConnected", "TLSHandshakeDone", "WSHandshakeDone",
            "FirstMessageResponse", "TotalTime"}
      [] err = "tls" ->
           {"TLSHandshakeDone", "WSHandshakeDone", "FirstMessageResponse",
            "TotalTime"}
      [] err = "upgrade" ->
           {"WSHandshakeDone", "FirstMessageResponse", "TotalTime"}
      [] err \in {"iplookup", "write", "read", "pong response timeout"} ->
           {"FirstMessageResponse", "TotalTime"}
      [] err \in {"closewrite", "close"} -> {"TotalTime"}

C6_LaterMarkersZero ==
    stage \in Errors => \A m \in MarkersFrom(stage) : result[m] = 0

\* C7: a cumulative marker is set as soon as its own sub-step completed:
\* when the connect fails after the lookup succeeded, DNSLookupDone is
\* set; when the secure handshake fails after the connect succeeded,
\* DNSLookupDone and TCPConnected are set.
C7_MarkerSetWithItsPhase ==
    /\ stage = "resolve" => result.DNSLookupDone = 0
    /\ stage = "connect" => result.DNSLookupDone > 0 /\ result.TCPConnected = 0
    /\ stage = "tls" => /\ result.DNSLookupDone > 0
                        /\ result.TCPConnected > 0
                        /\ result.TLSHandshakeDone = 0

\* C8: when CloseConn fails, writing the close frame or closing the
\* transport, ConnectionClose is still recorded as the time up to the
\* failure.
C8_CloseRecordedOnFailure ==
    stage \in {"closewrite", "close"} => result.ConnectionClose > 0

\* C9: after a SendPing that ended in a timeout, the background reader
\* ends once the connection has failed or is closed, in every
\* interleaving.
C9_ReaderEnds ==
    (stage = "pong response timeout" /\ Failing(conn)) ~> (readers[1].pc = "done")

\* C10: when no pong arrives before the timeout, SendPing fails with the
\* pong-timeout error, and a SendPing that times out leaves
\* MessageRoundTrip, FirstMessageResponse, ConnectionClose and TotalTime
\* as they were.
PongHandedOver == \E r \in Readers : readers[r].pc = "send" /\ readers[r].ch = pings

C10_TimeoutLeavesRecord ==
    [][/\ (pc = "ping_wait" /\ pc' # "ping_wait" /\ ~PongHandedOver) => SendPingTimeout
       /\ SendPingTimeout =>
            /\ result'.MessageRoundTrip = result.MessageRoundTrip
            /\ result'.FirstMessageResponse = result.FirstMessageResponse
            /\ result'.ConnectionClose = result.ConnectionClose
            /\ result'.TotalTime = result.TotalTime]_vars

\* The session's ping has timed out and nothing past the handshake is set.
C10_Witness ==
    /\ stage = "pong response timeout"
    /\ result.WSHandshakeDone > 0
    /\ result.MessageRoundTrip = 0 /\ result.FirstMessageResponse = 0

\* C11: when the pong reaches the waiting SendPing before the timeout,
\* SendPing returns nil with MessageRoundTrip > 0 and FirstMessageResponse
\* > 0, and the record MeasureLatencyPing then returns has both fields set.
FlowClosed == stage \in {"closed", "closewrite", "close"}

C11_PingAnswered ==
    [][/\ SendPingPong =>
            /\ stage' = "exchanged"
            /\ result'.MessageRoundTrip > 0
            /\ result'.FirstMessageResponse > 0
       /\ (FlowReturn /\ pings = 1 /\ FlowClosed) =>
            /\ ret'.err = "nil"
            /\ ret'.res.MessageRoundTrip > 0
            /\ ret'.res.FirstMessageResponse > 0]_vars

\* MeasureLatencyPing has returned the record of an answered ping.
C11_Witness ==
    /\ ret.returned /\ pings = 1 /\ ret.err = "nil"
    /\ ret.res.MessageRoundTrip > 0
    /\ ret.res.FirstMessageResponse > ret.res.MessageRoundTrip

\* C12: when the dial step or the exchange step of a canned flow fails, the
\* flow returns that error with a zero Result and no payload, and runs no
\* later step.
FlowFailed ==
    ret.returned /\ stage \in StepErrors =>
      ret.err = stage /\ ret.res = ZeroResult /\ ret.payload = "nil"

NoLaterStep ==
    stage \in StepErrors =>
      pc' = "idle" /\ stage' = stage /\ result' = result /\ pings' = pings

C12_FlowStopsAtFailure == []FlowFailed /\ [][NoLaterStep]_vars

\* A flow whose read failed has returned, and the session's own record was
\* partly filled.
C12_Witness ==
    /\ ret.returned /\ ret.err = "read" /\ ret.res = ZeroResult
    /\ result.WSHandshakeDone > 0

\* C13: when CloseConn fails in a canned flow, the flow returns that error
\* and not a nil error with a Result.
C13_CloseErrorReturned ==
    ret.returned /\ stage \in {"closewrite", "close"} => ret.err = stage

\* C14: a canned flow that returns a nil error returns a Result with
\* TotalTime > 0 and TotalTime = FirstMessageResponse + ConnectionClose.
C14_FlowTotalTime ==
    ret.returned /\ ret.err = "nil" =>
      /\ ret.res.TotalTime > 0
      /\ ret.res.TotalTime = ret.res.FirstMessageResponse + ret.res.ConnectionClose

\* C15: against the echo server a text round trip returns exactly the
\* bytes that were sent, whatever the payload, and sets MessageRoundTrip
\* > 0.
C15_TextEchoed ==
    got.op \in {"ReadMessage", "SendMessage"} /\ got.err = "nil" =>
      got.resp = got.sent /\ result.MessageRoundTrip > 0

\* SendMessage has returned a payload of full length that holds a byte
\* which is no text.
C15_Witness ==
    /\ got.op = "SendMessage" /\ got.err = "nil"
    /\ Len(got.sent) = MaxLen /\ got.sent[1] = 255
    /\ got.resp = got.sent

\* C16: against the echo server a structured round trip returns a value
\* whose text field equals the text field sent, and sets MessageRoundTrip
\* and FirstMessageResponse.
C16_StructuredEchoed ==
    got.op = "SendMessageJSON" =>
      /\ got.err = "nil"
      /\ got.resp = got.sent
      /\ result.MessageRoundTrip > 0
      /\ result.FirstMessageResponse > 0

\* C17: ReadMessage(writeStart) with the timestamp WriteMessage returned
\* sets MessageRoundTrip to the time from that timestamp to the end of the
\* read, the caller's delay between the two calls included, and the read
\* is there to be made whatever the timestamp is.
C17_DelayIncluded ==
    /\ [][\A d \in Ticks :
            (age >= 0 /\ ReadTextWith(age, d)) =>
              result'.MessageRoundTrip = age + d]_vars
    /\ [](pc = "idle" /\ wire.back # <<>> =>
            \A before \in 0..MaxAge : ENABLED ReadTextWith(before, 1))

\* A read has returned after the caller waited for as long as the model
\* follows a timestamp.
C17_Witness ==
    /\ got.op = "ReadMessage" /\ got.err = "nil"
    /\ result.MessageRoundTrip > MaxAge

\* C18: a second Dial on the same WSStat, after a first one that succeeded
\* or failed, neither replaces the session's connection nor overwrites the
\* record of the first attempt.
C18_OneAttempt ==
    dials >= 2 => result = first.result /\ held = first.held

\* C19: the phases of a session run in the order resolve, connect, secure
\* handshake (secure path only), protocol handshake, message exchange,
\* close, each one starting when the one before it has completed, inside
\* Dial and in the canned flows.
\* Where the session is: 0 not begun, 1 resolving, 2 connecting, 3 in the
\* secure handshake, 4 in the protocol handshake, 5 in what Dial does after
\* it, 6 dialed, 7 in the exchange, 8 exchanged, 9 closing, 10 closed or
\* failed to close, 11 failed before.
Progress ==
    CASE dial.step = "none" -> 0
      [] dial.step = "resolve" -> 1
      [] dial.step = "connect" -> 2
      [] dial.step = "tls" -> 3
      [] dial.step = "upgrade" -> 4
      [] dial.step = "iplookup" -> 5
      [] OTHER ->
           IF stage \in StepErrors THEN 11
           ELSE IF FlowClosed THEN 10
           ELSE IF pc = "close_conn" THEN 9
           ELSE IF stage = "exchanged" THEN 8
           ELSE IF stage = "written" \/ pc \in {"ping_write", "ping_wait"} THEN 7
           ELSE 6

PhaseOrder(secure) ==
    {<<0, 1>>, <<1, 2>>, <<4, 5>>, <<5, 6>>, <<6, 7>>, <<6, 8>>, <<7, 8>>,
     <<8, 9>>, <<8, 10>>, <<9, 10>>}
      \cup (IF secure THEN {<<2, 3>>, <<3, 4>>} ELSE {<<2, 4>>})
      \cup {<<p, 11>> : p \in 1..7}

C19_PhasesInOrder ==
    [][Progress' = Progress \/ <<Progress, Progress'>> \in PhaseOrder(dial'.secure)]_vars

\* A flow over the secure path has run all its phases and returned.
C19_Witness ==
    /\ ret.returned /\ stage = "closed" /\ result.TLSState
    /\ dial.step = "done" /\ Progress = 10

\* C20: on the plain and on the secure path a transport connect is pending
\* for no longer than the dial timeout: a connect that has not completed by
\* then is ended, so that Dial returns.
C20_ConnectBounded ==
    dial.step = "connect" => dial.wait <= DialTimeout

\* C21: after SetLogger(l), the SetLogLevel calls decide what reaches l's
\* output: a debug message is written if and only if the level set last is
\* debug, and an info message is written at the info and at the debug level.
Logged(lvl) == lines'[logger.out] = Append(lines[logger.out], lvl)

\* Whatever the level is, SetLogLevel(level) makes level the logger's level
\* and leaves its output alone.
LevelSet ==
    \A level \in Levels :
      ENABLED (SetLogLevel(level) /\ logger' = [out |-> logger.out, level |-> level])

DebugAtDebug ==
    LogDebug => (Logged(DebugLevel) <=> logger.level = DebugLevel)

InfoAtBoth ==
    (LogInfo /\ logger.level \in {InfoLevel, DebugLevel}) => Logged(InfoLevel)

C21_LevelControls == []LevelSet /\ [][DebugAtDebug /\ InfoAtBoth]_vars

\* C21, with the levels below debug and above info: a message is written if
\* and only if the level set last is not above the message's own, so that a
\* debug message is written at the debug and at the trace level, and an info
\* message at the info, the debug and the trace level.
ByOrder ==
    /\ LogDebug => (Logged(DebugLevel) <=>
                      logger.level \in {DebugLevel, TraceLevel})
    /\ LogInfo => (Logged(InfoLevel) <=>
                     logger.level \in {InfoLevel, DebugLevel, TraceLevel})

C21_LevelOrder == []LevelSet /\ [][ByOrder]_vars

\* The caller's buffer holds an info message and the debug message that
\* followed it, and the level is back at info.
C21_Witness ==
    /\ logger = [out |-> "buf", level |-> InfoLevel]
    /\ lines["buf"] = <<InfoLevel, DebugLevel>>

\* C22: NewWSStat returns a session with a dialer, with no connection, and
\* with a Result in which every phase duration and every cumulative marker
\* is zero.
Durations ==
    {"DNSLookup", "TCPConnection", "TLSHandshake", "WSHandshake",
     "MessageRoundTrip", "ConnectionClose", "DNSLookupDone", "TCPConnected",
     "TLSHandshakeDone", "WSHandshakeDone", "FirstMessageResponse", "TotalTime"}

C22_NewIsZero ==
    [][\A s \in Sessions :
         NewSession(s) =>
           /\ sess'[s].dialer
           /\ sess'[s].conn.state = "nil"
           /\ \A f \in Durations : sess'[s].result[f] = 0]_vars

\* A session has just been made while another one of the process is dialed
\* and has its times recorded.
C22_Witness ==
    /\ sess[1].step = "dialed" /\ sess[1].result.WSHandshakeDone > 0
    /\ sess[2].step = "new" /\ sess[2].dialer
    /\ sess[2].result = ZeroResult

\* C23: at no time are two tasks inside a read of the session's connection:
\* the background reader SendPing started is the only reader while it runs,
\* whatever the calls made on the session (a second SendPing, or SendMessage
\* or ReadMessage after a SendPing, among them).
\* The readLoop goroutines inside NextReader, one that NextReader's handler
\* call holds up included, and the foreground held up the same way inside
\* its own read.
Reading == {r \in Readers : readers[r].pc \in {"read", "send"}}

C23_OneReader ==
    conn.state = "open" =>
      Cardinality(Reading) + (IF pc = "stuck" THEN 1 ELSE 0) <= 1

\* C24: every CloseConn call closes the transport and so releases the
\* session's connection, also when writing the close frame fails.
C24_AlwaysReleased ==
    [][(CloseConnWriteErr \/ CloseConnClose) => conn'.state = "closed"]_vars

\* C25: when Dial has returned an error, whatever failed inside it (the IP
\* lookup after the protocol upgrade included), the session holds no
\* connection and WSHandshake and WSHandshakeDone are zero.
DialErrors == {"resolve", "connect", "tls", "upgrade", "iplookup"}

C25_FailedDialLeavesNothing ==
    stage \in DialErrors =>
      /\ conn.state = "nil"
      /\ result.WSHandshake = 0
      /\ result.WSHandshakeDone = 0

\* C26: each Dial makes a single attempt: exactly one name resolution and
\* at most one transport connect, to the first resolved address only; when
\* the connect fails no other address is tried, nothing is retried and the
\* error is returned.
OneConnect ==
    /\ dial.connects <= 1
    /\ dial.to = dial.connects

ConnectFails == ConnectErr \/ ConnectTimeout

FailureReturned ==
    ConnectFails =>
      /\ dial'.step = "done" /\ stage' = "connect"
      /\ dial'.connects = dial.connects

BeforeUpgrade == {"resolve", "connect", "tls", "upgrade"}

AttemptOnce ==
    /\ OneConnect
    /\ dial.step \in {"connect", "tls", "upgrade", "iplookup"} => dial.lookups = 1
    /\ dial.step = "done" =>
         dial.lookups = IF stage \in BeforeUpgrade THEN 1 ELSE 2

PingOutcome ==
    (pc = "ping_wait" /\ pc' # "ping_wait") =>
      /\ pc' = "idle"
      /\ SendPingPong # SendPingTimeout
      /\ SendPingPong => stage' = NextStage(stage, "SendPing", "nil")
      /\ SendPingTimeout =>
           stage' = NextStage(stage, "SendPing", "pong response timeout")

PingReturns == (pc = "ping_wait") ~> (pc = "idle")

C27_PingTerminates == [][PingOutcome]_vars /\ PingReturns

\* The timer has won although a reader was about to hand the signal over.
C27_Witness ==
    /\ stage = "pong response timeout" /\ pc = "idle"
    /\ \E r \in Readers : readers[r].pc = "send" /\ readers[r].ch = pings

\* C28: the dial timeout, the TLS configuration and the logger are set per
\* session: a change made for one session leaves what every other session
\* of the process does as it was, one that is dialing included.
\* What a session does from here on as far as the settings decide it: the
\* timeout its connect runs or will run with, the configuration its
\* handshake runs or will run with, and the logger its messages go to.
Existing == {s \in Sessions : sess[s].step # "none"}

Behaviour(s) ==
    [timeout |-> IF sess[s].step = "new" THEN dialTimeout ELSE sess[s].timeout,
     tls |-> IF sess[s].step \in {"new", "connect"} THEN TLSConfigUsed
             ELSE sess[s].tls,
     logger |-> logger]

Configures ==
    \/ \E timeout \in Timeouts : SetDialTimeout(timeout)
    \/ \E config \in TLSConfigs : SetCustomTLSConfig(config)
    \/ \E l \in Loggers : SetLogger(l)
    \/ \E level \in Levels : SetLogLevel(level)

C28_PerSession ==
    [][Configures =>
         \E a \in Sessions :
           \A b \in Existing \ {a} : Behaviour(b)' = Behaviour(b)]_vars

\* C29: when the write or the read fails inside ReadMessage, SendMessage,
\* SendMessageJSON or SendPing, the call returns the error and every field
\* of the record is as it was before the call.
ExchangeErr ==
    \/ /\ ReadMessageErr \/ SendErr("SendMessage") \/ SendErr("SendMessageJSON")
       /\ pc' = "idle"
    \/ SendPingWriteErr

C29_FailureLeavesRecord ==
    [][ExchangeErr =>
         /\ result' = result
         /\ stage' \in {"write", "read", "after"}]_vars

\* The first exchange of a dialed session has failed at the read deadline,
\* and nothing past the handshake is set.
C29_Witness ==
    /\ stage = "read" /\ conn.state = "broken"
    /\ result.WSHandshakeDone > 0
    /\ result.MessageRoundTrip = 0 /\ result.FirstMessageResponse = 0

\* C30: FirstMessageResponse is the time until the first message: once the
\* first successful exchange of a session has set it, the later successful
\* exchanges of the session leave it as it is.
C30_FirstOnly ==
    [][(ExchangeOk /\ result.FirstMessageResponse > 0) =>
         result'.FirstMessageResponse = result.FirstMessageResponse]_vars

\* C35: in a session that was dialed once and run to a successful close the
\* cumulative markers do not decrease in the order of the phases
\* (DNSLookupDone, TCPConnected, TLSHandshakeDone on the secure path,
\* WSHandshakeDone, FirstMessageResponse, TotalTime), and no phase duration
\* is negative, the WSHandshake that Dial gets by subtraction included.
PhaseDurations ==
    {"DNSLookup", "TCPConnection", "TLSHandshake", "WSHandshake",
     "MessageRoundTrip", "ConnectionClose"}

MarkersAscend(r) ==
    /\ r.DNSLookupDone <= r.TCPConnected
    /\ r.TLSState => /\ r.TCPConnected <= r.TLSHandshakeDone
                     /\ r.TLSHandshakeDone <= r.WSHandshakeDone
    /\ r.TCPConnected <= r.WSHandshakeDone
    /\ r.WSHandshakeDone <= r.FirstMessageResponse
    /\ r.FirstMessageResponse <= r.TotalTime

C35_MarkersAscend ==
    stage = "closed" =>
      /\ MarkersAscend(result)
      /\ \A f \in PhaseDurations : result[f] >= 0

\* A session over the secure path is closed and each of its markers is
\* above the one before.
C35_Witness ==
    /\ stage = "closed" /\ SecurePath
    /\ 0 < result.DNSLookupDone
    /\ result.DNSLookupDone < result.TCPConnected
    /\ result.TCPConnected < result.TLSHandshakeDone
    /\ result.TLSHandshakeDone < result.WSHandshakeDone
    /\ result.WSHandshakeDone < result.FirstMessageResponse
    /\ result.FirstMessageResponse < result.TotalTime

\* C38: WriteMessage leaves every field of the record as it was, when the
\* write succeeds and when it fails, and a failing one returns the zero
\* timestamp with the error of the write.
C38_WriteLeavesRecord ==
    [][/\ WriteMessage => result' = result
       /\ WriteMessageOk => age' = 0
       /\ WriteMessageErr => (age' = -1 /\ stage' \in {"write", "after"})]_vars

\* WriteMessage has returned its timestamp on a dialed session, and nothing
\* past the handshake is set.
C38_Witness ==
    /\ stage = "written" /\ age = 0
    /\ result.WSHandshakeDone > 0
    /\ result.MessageRoundTrip = 0 /\ result.FirstMessageResponse = 0

\* C37: a session dialed over the plain path has TLSHandshake and
\* TLSHandshakeDone at zero and TLSState nil: a Dial over the plain path that
\* returns nil leaves the three fields unset, whatever the WSStat has been
\* through before.
NoTLS(r) == r.TLSHandshake = 0 /\ r.TLSHandshakeDone = 0 /\ ~r.TLSState

C37_PlainHasNoTLS == [][DialCall(FALSE, "ok") => NoTLS(result')]_vars

\* C36: when the secure handshake fails, the transport connection that was
\* open is closed before Dial returns, TLSHandshake, TLSHandshakeDone and
\* TLSState stay unset, the record is otherwise as the connect left it, and
\* the error Dial returns is that of the handshake.
HandshakeFailed ==
    stage = "tls" => (NoTLS(result) /\ dial.netConn = "closed" /\ conn = NoConn)

HandshakeErrCloses ==
    (dial.step = "tls" /\ dial'.step = "done") =>
      /\ dial.netConn = "open" /\ dial'.netConn = "closed"
      /\ result' = result
      /\ stage' = "tls"

C36_HandshakeFailure == []HandshakeFailed /\ [][HandshakeErrCloses]_vars

\* Dial has returned the handshake error after a resolution and a connect
\* that succeeded, and the transport connection is closed.
C36_Witness ==
    /\ stage = "tls" /\ pc = "idle"
    /\ result.DNSLookup > 0 /\ result.TCPConnection > 0
    /\ NoTLS(result)
    /\ dial.netConn = "closed"

\* C32: a canned flow that has opened a connection has closed it when it
\* returns, after a closing that succeeded and after an exchange that failed
\* (write failure, read failure or deadline, pong timeout) alike.
AfterExchange == {"closed", "write", "read", "pong response timeout"}

C32_FlowCloses ==
    (ret.returned /\ stage \in AfterExchange) => conn.state = "closed"

\* C33: after a SendPing that returned nil, CloseConn returns nil and
\* records ConnectionClose and TotalTime however its steps interleave with
\* those of the background reader, and the transport is closed once: neither
\* CloseConn nor the reader's deferred Close meets a transport that is
\* closed already.
AfterPing == pings > 0 /\ stage \in {"exchanged", "closed"}

CloseConnReturns == pc = "close_conn" /\ pc' = "idle"

ReaderCloses ==
    \E r \in Readers : readers[r].pc = "read" /\ readers'[r].pc = "done"

ClosedWithReader ==
    /\ (AfterPing /\ CloseConnReturns) =>
         /\ stage' = "closed"
         /\ result'.ConnectionClose > 0 /\ result'.TotalTime > 0
    /\ (AfterPing /\ (CloseConnReturns \/ ReaderCloses)) =>
         conn.state # "closed"

C33_CloseWithReader == [][ClosedWithReader]_vars

\* C34: SendPing returns nil only on a pong received after its own ping
\* frame was written.  With a peer whose pongs all reach the background
\* reader between the start of the reader and the ping write, no SendPing
\* returns nil and MessageRoundTrip stays unset.
C34_OwnPongOnly ==
    pings > 0 => (stage # "exchanged" /\ result.MessageRoundTrip = 0)

\* C31: the RequestHeaders a Dial captures are the caller's headers merged
\* with the defaults: the caller's Origin in place of the default one (the
\* default one when the caller gives none), every other header of the
\* caller's as the caller gave it, and Upgrade, Connection, Sec-WebSocket-Key
\* and Sec-WebSocket-Version with their default values; the ResponseHeaders
\* are those of the upgrade response.
C31_HeadersMerged ==
    hdr.step = "captured" =>
      /\ \A n \in DOMAIN hdr.custom :
           /\ n \in DOMAIN hdr.RequestHeaders
           /\ hdr.RequestHeaders[n] = hdr.custom[n]
      /\ "Origin" \in DOMAIN hdr.RequestHeaders
      /\ "Origin" \notin DOMAIN hdr.custom =>
           hdr.RequestHeaders["Origin"] = "http://example.com"
      /\ \A n \in DOMAIN documentedDefaultHeaders :
           /\ n \in DOMAIN hdr.RequestHeaders
           /\ hdr.RequestHeaders[n] = documentedDefaultHeaders[n]
      /\ hdr.ResponseHeaders = UpgradeResponse

====
